---------------------------- MODULE Spec2Model ----------------------------
(***************************************************************************)
(* A model of authit's provisioning links, sessions, admin gate and login. *)
(*                                                                         *)
(* The repository holds two revisions of the link store:                   *)
(*   - the redb table of server/src/storage.rs (ProvisionStorage), which   *)
(*     is the one api::complete_provision drives through server/src/lib.rs *)
(*   - the SQL table of server/src/storage/provision_link.rs               *)
(*     (ProvisionLink), whose consume is a read, a check on the read       *)
(*     snapshot and one conditional UPDATE.                                *)
(* The variable backend says which of the two a behaviour runs.            *)
(*                                                                         *)
(* It holds two revisions of the session cookie as well:                   *)
(*   - the encoded session of types/src/session.rs, set by the callback of *)
(*     web/src/auth_routes.rs and read by server::get_session_from_cookie  *)
(*   - the signed id of a row of the sessions table                        *)
(*     (server/src/storage/session.rs), set by the callback of             *)
(*     server/src/auth_routes.rs.                                          *)
(* The variable scheme says which of the two a behaviour runs.             *)
(*                                                                         *)
(* Five specifications share the operators that model the code:            *)
(*   SpecStore  one caller drives the store's operations one at a time     *)
(*   Spec       concurrent requests: complete_provision over the redb      *)
(*              store, ProvisionLink::consume tasks over the SQL store     *)
(*   SpecAuth   callbacks, logouts and the gated server functions of       *)
(*              api/src/lib.rs, served one request at a time (the gate     *)
(*              reads nothing but the request's headers)                   *)
(*   SpecLogin  concurrent login and callback requests over the PKCE       *)
(*              verifier map of auth_routes.rs                             *)
(*   SpecPersons  the translation of the provider's person entries         *)
(*              (types/src/kanidm.rs) and list_persons                     *)
(***************************************************************************)
EXTENDS Integers, Sequences, FiniteSets, TLC

(***************************************************************************)
(* Bounds of the model.                                                    *)
(***************************************************************************)
MaxLinks == 1
MaxTime == 1
MaxDuration == 1
MaxUses == 2
MaxCount == 2
NumProcs == 2
MaxAccounts == 3

(* Option::None of max_uses: Option<u32> / Option<i32>. *)
None == -1

LinkIds == 1 .. MaxLinks
Times == 0 .. MaxTime
Durations == 0 .. MaxDuration
MaxUsesValues == {None} \cup (0 .. MaxUses)
Procs == 1 .. NumProcs

(***************************************************************************)
(* Error messages of the code.                                             *)
(***************************************************************************)
Ok == ""
ErrNotFound == "provision link not found or has been revoked"
ErrExpired == "provision link has expired"
ErrMaxUses == "provision link has reached maximum uses"
ErrRowNotFound == "sqlx: no rows returned"
ErrAlreadyUsed == "provision link has already been used"
ErrUsedUp == "link already used up"
ErrTokenFormat == "invalid token format"
ErrSignatureEncoding == "invalid signature encoding"
ErrTokenSignature == "invalid token signature"
ErrTokenEncoding == "invalid token encoding"
ErrTokenLength == "invalid token length"
ErrKanidmApi == "Kanidm API error"
ErrKanidmSend == "failed to send request to Kanidm"

ExpiryClass == {ErrExpired}
ExhaustionClass == {ErrMaxUses, ErrAlreadyUsed, ErrUsedUp}
NotFoundClass == {ErrNotFound, ErrRowNotFound}
TokenClass == {ErrTokenFormat, ErrSignatureEncoding, ErrTokenSignature,
               ErrTokenEncoding, ErrTokenLength}

(***************************************************************************)
(* ProvisionRecord (types/src/provision.rs) and the row of ProvisionLink.  *)
(* created_at is written once and never read; it is left out.              *)
(***************************************************************************)
NoRecord == [id |-> 0, expires_at |-> 0, max_uses |-> None, use_count |-> 0]

ProvisionRecord_new(id, duration_seconds, max_uses, t) ==
    [id |-> id, expires_at |-> t + duration_seconds,
     max_uses |-> max_uses, use_count |-> 0]

is_expired(record, t) == t > record.expires_at

(* The bound check off by one. *)
is_exhausted_off_by_one(record) ==
    IF record.max_uses = None THEN FALSE
    ELSE record.use_count > record.max_uses

is_exhausted(record) ==
    IF record.max_uses = None THEN FALSE
    ELSE record.use_count >= record.max_uses

(* A subtraction that does not stop at 0. *)
unchecked_sub(a, b) == a - b

saturating_sub(a, b) == IF a >= b THEN a - b ELSE 0

uses_remaining(record) ==
    IF record.max_uses = None THEN None
    ELSE saturating_sub(record.max_uses, record.use_count)

ProvisionLinkInfo_from(record) ==
    [id |-> record.id, expires_at |-> record.expires_at,
     max_uses |-> record.max_uses, uses_remaining |-> uses_remaining(record)]

NoInfo == ProvisionLinkInfo_from(NoRecord)

(***************************************************************************)
(* redb table operations inside one write transaction.                     *)
(***************************************************************************)
table_insert(t, id, record) == [t EXCEPT ![id] = record]

table_remove(t, id) == [t EXCEPT ![id] = NoRecord]

(***************************************************************************)
(* ProvisionStorage (server/src/storage.rs).  Each operation is one redb   *)
(* transaction; redb runs write transactions one at a time.  An operator   *)
(* returns the table the transaction worked on and whether the code        *)
(* reached write_txn.commit(): a WriteTransaction dropped on an early      *)
(* return is aborted and its writes are discarded.                         *)
(***************************************************************************)
(* A write transaction that commits on every path. *)
txn_result_committed(t, txn) == txn.table

txn_result(t, txn) == IF txn.committed THEN txn.table ELSE t

(* A cleanup that empties the table. *)
cleanup_expired_all(t, now_) == [id \in DOMAIN t |-> NoRecord]

cleanup_expired(t, now_) ==
    [id \in DOMAIN t |->
        IF t[id] # NoRecord /\ (is_expired(t[id], now_) \/ is_exhausted(t[id]))
        THEN NoRecord ELSE t[id]]

create_link(t, id, duration_seconds, max_uses, now_, rand_cleanup) ==
    LET record == ProvisionRecord_new(id, duration_seconds, max_uses, now_)
        stored == table_insert(t, id, record)
    IN [table |-> IF rand_cleanup THEN cleanup_expired(stored, now_) ELSE stored,
        record |-> record]

verify_link(t, id, now_) ==
    IF t[id] = NoRecord THEN [err |-> ErrNotFound, info |-> NoInfo]
    ELSE IF is_expired(t[id], now_) THEN [err |-> ErrExpired, info |-> NoInfo]
    ELSE IF is_exhausted(t[id]) THEN [err |-> ErrMaxUses, info |-> NoInfo]
    ELSE [err |-> Ok, info |-> ProvisionLinkInfo_from(t[id])]

(* consume_link with the exhaustion check ahead of the expiry check. *)
consume_link_exhausted_first(t, id, now_) ==
    IF t[id] = NoRecord
    THEN [committed |-> FALSE, table |-> t, err |-> ErrNotFound, record |-> NoRecord]
    ELSE IF is_exhausted(t[id])
    THEN [committed |-> FALSE, table |-> table_remove(t, id),
          err |-> ErrMaxUses, record |-> NoRecord]
    ELSE IF is_expired(t[id], now_)
    THEN [committed |-> FALSE, table |-> table_remove(t, id),
          err |-> ErrExpired, record |-> NoRecord]
    ELSE LET record == [t[id] EXCEPT !.use_count = @ + 1]
         IN [committed |-> TRUE,
             table |-> IF is_exhausted(record) THEN table_remove(t, id)
                       ELSE table_insert(t, id, record),
             err |-> Ok, record |-> record]

consume_link(t, id, now_) ==
    IF t[id] = NoRecord
    THEN [committed |-> FALSE, table |-> t, err |-> ErrNotFound, record |-> NoRecord]
    ELSE IF is_expired(t[id], now_)
    THEN [committed |-> FALSE, table |-> table_remove(t, id),
          err |-> ErrExpired, record |-> NoRecord]
    ELSE IF is_exhausted(t[id])
    THEN [committed |-> FALSE, table |-> table_remove(t, id),
          err |-> ErrMaxUses, record |-> NoRecord]
    ELSE LET record == [t[id] EXCEPT !.use_count = @ + 1]
         IN [committed |-> TRUE,
             table |-> IF is_exhausted(record) THEN table_remove(t, id)
                       ELSE table_insert(t, id, record),
             err |-> Ok, record |-> record]

(* A rollback that stores the record as consume_link returned it. *)
unconsume_link_no_decrement(t, record) == table_insert(t, record.id, record)

unconsume_link(t, record) ==
    LET restored == [record EXCEPT !.use_count = saturating_sub(@, 1)]
    IN table_insert(t, restored.id, restored)

delete_link(t, id) == table_remove(t, id)

(***************************************************************************)
(* ProvisionLink (server/src/storage/provision_link.rs): the SQL table.    *)
(***************************************************************************)
ProvisionLink_new(id, duration, max_uses, groups, t) ==
    [id |-> id, expires_at |-> t + duration,
     max_uses |-> max_uses, use_count |-> 0, groups |-> groups]

ProvisionLink_is_expired(link, t) == t >= link.expires_at

ProvisionLink_is_exhausted(link) ==
    link.max_uses # None /\ link.use_count >= link.max_uses

ProvisionLink_verify(link, t) ==
    IF ProvisionLink_is_expired(link, t) THEN ErrExpired
    ELSE IF ProvisionLink_is_exhausted(link) THEN ErrAlreadyUsed
    ELSE Ok

ProvisionLink_find(t, id) ==
    IF t[id] = NoRecord THEN [err |-> ErrRowNotFound, link |-> NoRecord]
    ELSE [err |-> Ok, link |-> t[id]]

(* An UPDATE whose WHERE clause names the id only. *)
try_increment_unbounded(t, id) ==
    IF t[id] # NoRecord
    THEN [table |-> [t EXCEPT ![id].use_count = @ + 1], err |-> Ok]
    ELSE [table |-> t, err |-> ErrUsedUp]

try_increment(t, id) ==
    IF t[id] # NoRecord /\ (t[id].max_uses = None \/ t[id].use_count < t[id].max_uses)
    THEN [table |-> [t EXCEPT ![id].use_count = @ + 1], err |-> Ok]
    ELSE [table |-> t, err |-> ErrUsedUp]

decrement(t, id) ==
    IF t[id] # NoRecord /\ t[id].use_count > 0
    THEN [t EXCEPT ![id].use_count = @ - 1]
    ELSE t

ProvisionLink_delete(t, id) == [t EXCEPT ![id] = NoRecord]


(* ProvisionLink::consume run by a single caller: find_token, verify,      *)
(* try_increment with nothing in between.  It returns the link as read.    *)
ProvisionLink_consume(t, id, now_) ==
    LET found == ProvisionLink_find(t, id)
        checked == ProvisionLink_verify(found.link, now_)
        updated == try_increment(t, id)
    IN IF found.err # Ok THEN [table |-> t, err |-> found.err, link |-> NoRecord]
       ELSE IF checked # Ok THEN [table |-> t, err |-> checked, link |-> NoRecord]
       ELSE IF updated.err # Ok THEN [table |-> t, err |-> updated.err, link |-> NoRecord]
       ELSE [table |-> updated.table, err |-> Ok, link |-> found.link]

(***************************************************************************)
(* Signed tokens (server/src/lib.rs sign_uuid / extract_uuid, and          *)
(* server/src/uuid_v7.rs as_token / from_token).  A token is the sequence  *)
(* of the parts split('.') yields.  A part is a piece of text: what it     *)
(* encodes (a uuid, an HMAC tag, something else), in which alphabet, and   *)
(* for a tag the key and the message it was computed over.  HMAC-SHA256 is *)
(* taken as collision free: a tag equals another only for the same key     *)
(* and message.                                                            *)
(***************************************************************************)
Secret == "session_secret"
OtherKey == "not the secret"

Part(text, of, id, key, msg) ==
    [text |-> text, of |-> of, id |-> id, key |-> key,
     msg_text |-> msg.text, msg_of |-> msg.of]

NoMsg == [text |-> "", of |-> ""]

(* BASE64_URL_SAFE_NO_PAD.encode(id.as_bytes()) *)
uuid_b64(id) == Part("base64", "uuid", id, "", NoMsg)

(* id.simple().to_string() *)
uuid_simple(id) == Part("hex", "uuid", id, "", NoMsg)

(* BASE64_URL_SAFE_NO_PAD.encode(HMAC(key, msg)) *)
hmac_b64(key, msg) == Part("base64", "hmac", msg.id, key, msg)

(* A part that is not base64url text. *)
not_base64 == Part("other", "junk", 0, "", NoMsg)

(* A signer that writes the id in its simple (hex) form. *)
sign_uuid_simple(id) == <<uuid_simple(id), hmac_b64(Secret, uuid_simple(id))>>

sign_uuid(id) == <<uuid_b64(id), hmac_b64(Secret, uuid_b64(id))>>

(* extract_uuid that decodes the id part and never looks at the signature. *)
extract_uuid_unverified(signed_token) ==
    IF Len(signed_token) # 2 THEN [err |-> ErrTokenFormat, id |-> 0]
    ELSE LET uuid_part == signed_token[1]
         IN IF uuid_part.text \notin {"base64", "hex"}
            THEN [err |-> ErrTokenEncoding, id |-> 0]
            ELSE IF uuid_part.text # "base64" \/ uuid_part.of # "uuid"
                    \/ uuid_part.id \notin LinkIds
            THEN [err |-> ErrTokenLength, id |-> 0]
            ELSE [err |-> Ok, id |-> uuid_part.id]

extract_uuid(signed_token) ==
    IF Len(signed_token) # 2 THEN [err |-> ErrTokenFormat, id |-> 0]
    ELSE LET uuid_part == signed_token[1]
             signature_b64 == signed_token[2]
         IN IF signature_b64.text # "base64"
            THEN [err |-> ErrSignatureEncoding, id |-> 0]
            ELSE IF signature_b64 # hmac_b64(Secret, uuid_part)
            THEN [err |-> ErrTokenSignature, id |-> 0]
            ELSE IF uuid_part.text \notin {"base64", "hex"}
            THEN [err |-> ErrTokenEncoding, id |-> 0]
            ELSE IF uuid_part.text # "base64" \/ uuid_part.of # "uuid"
            THEN [err |-> ErrTokenLength, id |-> 0]
            ELSE [err |-> Ok, id |-> uuid_part.id]

as_token(id) == <<uuid_simple(id), hmac_b64(Secret, uuid_simple(id))>>

from_token(token) ==
    IF Len(token) # 2 THEN [err |-> ErrTokenFormat, id |-> 0]
    ELSE LET uuid_part == token[1]
             signature_b64 == token[2]
         IN IF signature_b64.text # "base64"
            THEN [err |-> ErrSignatureEncoding, id |-> 0]
            ELSE IF signature_b64 # hmac_b64(Secret, uuid_part)
            THEN [err |-> ErrTokenSignature, id |-> 0]
            ELSE IF uuid_part.text # "hex" \/ uuid_part.of # "uuid"
            THEN [err |-> ErrTokenEncoding, id |-> 0]
            ELSE [err |-> Ok, id |-> uuid_part.id]

(* The tokens a caller can send for link id: the one the server signed,    *)
(* one signed under another key, one with an undecodable signature, and    *)
(* strings of one and of three parts.                                      *)
TokensFor(signed, id_part) ==
    { signed,
      <<id_part, hmac_b64(OtherKey, id_part)>>,
      <<id_part, not_base64>>,
      <<id_part>>,
      <<id_part, hmac_b64(Secret, id_part), hmac_b64(Secret, id_part)>> }

(* What a client without the secret can make of a signed token: the id     *)
(* part replaced (by another id, by another encoding of the same id), an   *)
(* id part that does not decode under a signature that does not verify,    *)
(* and the empty string.                                                   *)
TamperedTokens(signed, other_id_part, other_encoding) ==
    { <<other_id_part, signed[2]>>,
      <<other_encoding, signed[2]>>,
      <<not_base64, hmac_b64(OtherKey, not_base64)>>,
      <<not_base64, signed[2]>>,
      <<>> }

(***************************************************************************)
(* Sessions and the authorization gate.  The repository holds two          *)
(* revisions of the session cookie:                                        *)
(*   - "cookie": web/src/auth_routes.rs sets the cookie to                 *)
(*     encode_session(&user_session) (types/src/session.rs), and           *)
(*     server::get_session_from_cookie decodes it; this is the one the     *)
(*     server functions of api/src/lib.rs go through                       *)
(*   - "table": server/src/auth_routes.rs stores a row in the sessions     *)
(*     table and sets the cookie to the signed row id                      *)
(*     (server/src/storage/session.rs).                                    *)
(* A group name is a sequence of pieces of text, so that one name can be   *)
(* the beginning of another.                                               *)
(***************************************************************************)
MaxSessions == 2
MaxCalls == 1

SessionIds == 1 .. MaxSessions

SESSION_COOKIE_NAME == "authit_session"

AdminGroup == <<"authit_admin">>
LongerGroup == <<"authit_admin", "s">>
StaffGroup == <<"staff">>

(* The groups lists a link can be created with. *)
TargetGroups == {<<>>, <<StaffGroup>>}

(* The users of the provider and the groups its userinfo endpoint reports. *)
Users == {"alice", "bob"}
Userinfo(user) == IF user = "alice" THEN <<StaffGroup, AdminGroup>> ELSE <<LongerGroup>>

(* The access token the provider returns to the n-th callback. *)
AccessToken(n) == [bearer |-> n]

ErrNoCookies == "no cookies in request"
ErrCookieNotFound == "session cookie not found"
ErrInvalidCookie == "invalid session cookie"
ErrAccessDenied == "access denied: user must be in the admin group"

UnauthenticatedClass == {ErrNoCookies, ErrCookieNotFound, ErrInvalidCookie}
ForbiddenClass == {ErrAccessDenied}

UserSession(user, groups, access_token) ==
    [user_id |-> user, username |-> user, groups |-> groups,
     access_token |-> access_token]

NoSession == [user_id |-> "", username |-> "", groups |-> <<>>,
              access_token |-> [bearer |-> 0]]

(* A group matched when the wanted name is the beginning of one of the     *)
(* session's.                                                              *)
is_in_group_prefix(session, group) ==
    \E i \in 1 .. Len(session.groups) :
        /\ Len(session.groups[i]) >= Len(group)
        /\ SubSeq(session.groups[i], 1, Len(group)) = group

is_in_group(session, group) ==
    \E i \in 1 .. Len(session.groups) : session.groups[i] = group

(* Cookie values.  encode_session: base64url of the JSON of the session,   *)
(* the access token included (secret_string::serialize exposes it).        *)
encode_session(session) == [kind |-> "base64 json", session |-> session]

(* The signed id of a session row, as one string. *)
TokenValue(token) == [kind |-> "token", token |-> token]

(* A value that is no base64url text. *)
JunkValue == [kind |-> "junk"]

decode_session(encoded) ==
    IF encoded.kind = "base64 json"
    THEN [err |-> Ok, session |-> encoded.session]
    ELSE [err |-> ErrInvalidCookie, session |-> NoSession]

(* The Cookie header of a request: none, or the list of its cookies. *)
NoHeader == [present |-> FALSE, cookies |-> <<>>]
Header(cookie_parts) == [present |-> TRUE, cookies |-> cookie_parts]
Cookie(name, value) == [name |-> name, value |-> value]

(* server::get_session_from_cookie: the first cookie named                 *)
(* SESSION_COOKIE_NAME is decoded.                                         *)
get_session_from_cookie(headers) ==
    IF ~headers.present THEN [err |-> ErrNoCookies, session |-> NoSession]
    ELSE LET parts == headers.cookies
             found == {i \in 1 .. Len(parts) : parts[i].name = SESSION_COOKIE_NAME}
         IN IF found = {}
            THEN [err |-> ErrCookieNotFound, session |-> NoSession]
            ELSE LET first == CHOOSE i \in found : \A j \in found : i <= j
                 IN decode_session(parts[first].value)

(* server::require_admin_session *)
require_admin_session(headers) ==
    LET resolved == get_session_from_cookie(headers)
    IN IF resolved.err # Ok THEN resolved
       ELSE IF ~is_in_group(resolved.session, AdminGroup)
       THEN [err |-> ErrAccessDenied, session |-> NoSession]
       ELSE resolved

(* Session::find_token over the sessions table t. *)
Session_find_token(t, value) ==
    IF value.kind # "token" THEN [err |-> ErrTokenFormat, id |-> 0, session |-> NoSession]
    ELSE LET uuid == from_token(value.token)
         IN IF uuid.err # Ok THEN [err |-> uuid.err, id |-> 0, session |-> NoSession]
            ELSE IF uuid.id \notin DOMAIN t \/ t[uuid.id] = NoSession
            THEN [err |-> ErrRowNotFound, id |-> uuid.id, session |-> NoSession]
            ELSE [err |-> Ok, id |-> uuid.id, session |-> t[uuid.id]]

(* Session::delete_token *)
Session_delete_token(t, value) ==
    LET found == Session_find_token(t, value)
    IN IF found.err = Ok THEN [t EXCEPT ![found.id] = NoSession] ELSE t

(***************************************************************************)
(* The OAuth2/PKCE login flow (auth_routes.rs of server/ and of web/).     *)
(* login stores (state -> (verifier, Instant)) in AuthState::pkce_verifiers *)
(* and callback removes the entry of its state parameter.  A state is a    *)
(* fresh CsrfToken::new_random(); ForgedState is a value no login issued.  *)
(***************************************************************************)
MaxLogins == 2
NumCallbacks == 2
MaxClock == 900

(* Instant::now() is read in steps of ClockStep seconds. *)
ClockStep == 300

(* let ttl = Duration::from_secs(600) *)
ttl == 600

States == 1 .. MaxLogins
ForgedState == 0
StateParams == {ForgedState} \cup States
Callbacks == 1 .. NumCallbacks

(* HashMap::get / remove returning None. *)
NoEntry == -1

InvalidState == "Invalid OAuth state"
ErrTokenExchange == "Token exchange failed"
ErrUserInfo == "Failed to fetch user info"
ErrSession == "Session error"
ErrMissingVerifier == "missing pkce verifier"
ErrRequest == "request to the provider failed"
ErrSessionInsert == "insert into sessions failed"

(* The errors of a callback whose state is not in the map. *)
InvalidStateClass == {InvalidState, ErrMissingVerifier}

(* A cleanup that keeps only the entries inserted at this very instant. *)
cleanup_old_verifiers_eager(verifiers, now_) ==
    [s \in DOMAIN verifiers |->
        IF verifiers[s] # NoEntry /\ now_ - verifiers[s] <= 0
        THEN verifiers[s] ELSE NoEntry]

(* AuthState::cleanup_old_verifiers: retain(now - created < ttl) *)
cleanup_old_verifiers(verifiers, now_) ==
    [s \in DOMAIN verifiers |->
        IF verifiers[s] # NoEntry /\ now_ - verifiers[s] < ttl
        THEN verifiers[s] ELSE NoEntry]

(* pkce_verifiers.write().await.insert(state, (verifier, Instant::now())) *)
verifiers_insert(verifiers, state, now_) == [verifiers EXCEPT ![state] = now_]

(* A state check that reads the entry and leaves it in the map. *)
verifiers_remove_get(verifiers, state) ==
    IF state \in DOMAIN verifiers
    THEN [entry |-> verifiers[state], map |-> verifiers]
    ELSE [entry |-> NoEntry, map |-> verifiers]

(* pkce_verifiers.write().await.remove(&params.state) *)
verifiers_remove(verifiers, state) ==
    IF state \in DOMAIN verifiers
    THEN [entry |-> verifiers[state], map |-> [verifiers EXCEPT ![state] = NoEntry]]
    ELSE [entry |-> NoEntry, map |-> verifiers]

(***************************************************************************)
(* Person entries of the provider (types/src/kanidm.rs).  An attribute is  *)
(* the list of its values, empty when the entry has none.                  *)
(***************************************************************************)
MaxEntries == 2

ErrMissingUuid == "missing uuid for person"
ErrMissingName == "missing name for person"
ErrMissingDisplayname == "missing displayname for person"

RawPerson(uuid, name, displayname, mail, memberof) ==
    [uuid |-> uuid, name |-> name, displayname |-> displayname,
     mail |-> mail, memberof |-> memberof]

(* The entries the provider can answer with. *)
RawPersons ==
    {RawPerson(uuid, name, displayname, mail, memberof) :
        uuid \in {<<>>, <<"u1">>, <<"u1", "u2">>},
        name \in {<<>>, <<"bob">>},
        displayname \in {<<>>, <<"Bob">>},
        mail \in {<<>>, <<"bob@example.org">>},
        memberof \in {<<>>, <<"staff">>}}

NoPerson == [uuid |-> "", name |-> "", display_name |-> "",
             email_addresses |-> <<>>, groups |-> <<>>]

(* TryFrom<RawPerson> for Person *)
Person_try_from(attrs) ==
    IF attrs.uuid = <<>> THEN [err |-> ErrMissingUuid, person |-> NoPerson]
    ELSE IF attrs.name = <<>> THEN [err |-> ErrMissingName, person |-> NoPerson]
    ELSE IF attrs.displayname = <<>>
    THEN [err |-> ErrMissingDisplayname, person |-> NoPerson]
    ELSE [err |-> Ok,
          person |-> [uuid |-> Head(attrs.uuid), name |-> Head(attrs.name),
                      display_name |-> Head(attrs.displayname),
                      email_addresses |-> attrs.mail, groups |-> attrs.memberof]]

(* list_persons: entries.into_iter().filter_map(|e| Person::try_from(e).ok()) *)
RECURSIVE list_persons(_)
list_persons(raw) ==
    IF raw = <<>> THEN <<>>
    ELSE LET first == Person_try_from(Head(raw))
         IN IF first.err = Ok THEN <<first.person>> \o list_persons(Tail(raw))
            ELSE list_persons(Tail(raw))

(***************************************************************************)
(* State.                                                                  *)
(***************************************************************************)
VARIABLES
    backend,    \* "redb" (storage.rs) or "sqlx" (storage/provision_link.rs)
    table,      \* the stored links: LinkIds -> record, NoRecord when absent
    now,        \* the wall clock
    next_id,    \* ids handed out by Uuid::now_v7() so far
    issued,     \* records the store returned to its caller (SpecStore)
    last,       \* the last store call of SpecStore and what it returned
    hist,       \* per link: what has been done to it since it was created
    pc,         \* per request: where it stands
    target,     \* per request: the link id its token decoded to, 0 for none
    before,     \* per request: the link as stored when its consume began
    held,       \* per request: the record consume returned to it
    account,    \* per request: the provider has created the account
    result,     \* per request: the error it returned, Ok for none
    rolled,     \* per request: it has rolled its use back
    accounts,   \* per link: accounts the provider created for its requests
    scheme,     \* the session cookie: "cookie" (types/src/session.rs, the
                \* encoded session) or "table" (storage/session.rs, a signed id)
    sessions,   \* the sessions table: SessionIds -> user data, NoSession if absent
    next_session, \* session ids handed out by Uuid::now_v7() so far
    cookies,    \* the cookie values callback has set
    logged_out, \* the cookie values a logout request has carried
    reply,      \* the last answer given to a client
    admin,      \* the administrative request in flight
    kanidm_calls, \* calls of administrative requests the provider has received
    members,    \* the provider's group memberships: pairs <<group, user>>
    pkce_verifiers, \* AuthState::pkce_verifiers: state -> Instant of its insert,
                \* NoEntry when the state is not in the map
    clock,      \* Instant::now(), in seconds
    logins,     \* per login request: where it stands and what its cleanup kept
    callbacks,  \* per callback request: its state parameter and where it stands
    passes,     \* per state value: callbacks that passed the state check with it
    evicted,    \* per state value: its age when a cleanup evicted it, NoEntry if
                \* none did
    entries,    \* the raw person entries of the provider's answer
    persons,    \* the last result of list_persons
    person      \* the last result of translating one entry

auth_vars == <<scheme, sessions, next_session, cookies, logged_out, reply, admin,
               kanidm_calls, members>>
store_vars == <<backend, table, now, next_id, issued, last, hist>>
request_vars == <<pc, target, before, held, account, result, rolled, accounts>>
login_vars == <<pkce_verifiers, clock, logins, callbacks, passes, evicted>>
kanidm_vars == <<entries, persons, person>>
outer_vars == <<login_vars, kanidm_vars>>
vars == <<store_vars, request_vars, auth_vars, login_vars, kanidm_vars>>

NoCall == [op |-> "none", id |-> 0, at |-> 0, err |-> Ok,
           pre |-> NoRecord, info |-> NoInfo]

NoHist == [created |-> NoRecord, consumed |-> 0, rolled_back |-> FALSE,
           revoked |-> FALSE, expired_seen |-> FALSE, ambiguous |-> FALSE]

(* Successful consumes are counted up to MaxUses + 1. *)
CountUp(n) == IF n <= MaxUses THEN n + 1 ELSE n

(* The history of link id after a consume on it returned err. *)
Consumed(id, err) ==
    [hist EXCEPT ![id].consumed = IF err = Ok THEN CountUp(@) ELSE @]

(* The same, noting a rejection as expired too. *)
Noted(id, err) ==
    [Consumed(id, err) EXCEPT ![id].expired_seen = @ \/ err = ErrExpired]

(* use_count has no bound when max_uses is None: the model stops at MaxCount. *)
WithinModel(record) == record.use_count <= MaxCount

NoValue == [kind |-> "none"]
NoReply == [op |-> "none", cookie |-> NoValue, err |-> Ok, value |-> NoValue,
            status |-> "", location |-> ""]
NoRequest == [op |-> "none", stage |-> "idle", gate |-> Ok]

AuthInit ==
    /\ sessions = [id \in SessionIds |-> NoSession]
    /\ next_session = 0
    /\ cookies = {}
    /\ logged_out = {}
    /\ reply = NoReply
    /\ admin = NoRequest
    /\ kanidm_calls = 0
    /\ members = {}

NoLogin == [pc |-> "idle", kept |-> {}]
NoCallback == [state |-> ForgedState, stage |-> "idle", err |-> Ok,
               age |-> NoEntry, exchanged |-> FALSE]
NoListing == [err |-> Ok, persons |-> <<>>, listed |-> FALSE]
NoTranslation == [index |-> 0, err |-> Ok, person |-> NoPerson]

LoginInit ==
    /\ pkce_verifiers = [s \in States |-> NoEntry]
    /\ clock = 0
    /\ logins = [s \in States |-> NoLogin]
    /\ callbacks = [c \in Callbacks |-> NoCallback]
    /\ passes = [s \in StateParams |-> 0]
    /\ evicted = [s \in States |-> NoEntry]

(* Nothing stored, no request under way. *)
IdleInit ==
    /\ LoginInit
    /\ persons = NoListing
    /\ person = NoTranslation
    /\ table = [id \in LinkIds |-> NoRecord]
    /\ now = 0
    /\ next_id = 0
    /\ issued = {}
    /\ last = NoCall
    /\ hist = [id \in LinkIds |-> NoHist]
    /\ pc = [p \in Procs |-> "idle"]
    /\ target = [p \in Procs |-> 0]
    /\ before = [p \in Procs |-> NoRecord]
    /\ held = [p \in Procs |-> NoRecord]
    /\ account = [p \in Procs |-> FALSE]
    /\ result = [p \in Procs |-> Ok]
    /\ rolled = [p \in Procs |-> FALSE]
    /\ accounts = [id \in LinkIds |-> 0]
    /\ AuthInit

StoreInit ==
    /\ backend \in {"redb", "sqlx"}
    /\ scheme = "cookie"
    /\ entries = <<>>
    /\ IdleInit

Call(op, id, err, info) ==
    [op |-> op, id |-> id, at |-> now, err |-> err, pre |-> table[id], info |-> info]

Tick ==
    /\ now < MaxTime
    /\ now' = now + 1
    /\ UNCHANGED <<outer_vars, auth_vars, backend, table, next_id, issued, last, hist, request_vars>>

(* ProvisionStorage::create_link; rand_cleanup() is true about one time in ten. *)
CreateLink(duration, max_uses, rand_cleanup) ==
    /\ backend = "redb"
    /\ next_id < MaxLinks
    /\ LET id == next_id + 1
           r == create_link(table, id, duration, max_uses, now, rand_cleanup)
       IN /\ table' = r.table
          /\ next_id' = id
          /\ issued' = issued \cup {r.record}
          /\ last' = Call("create", id, Ok, ProvisionLinkInfo_from(r.record))
          /\ hist' = [hist EXCEPT ![id] = [NoHist EXCEPT !.created = r.record]]
    /\ UNCHANGED <<outer_vars, auth_vars, backend, now, request_vars>>

VerifyLink(id) ==
    /\ backend = "redb"
    /\ LET r == verify_link(table, id, now)
       IN /\ last' = Call("verify", id, r.err, r.info)
          /\ hist' = [hist EXCEPT ![id].expired_seen = @ \/ r.err = ErrExpired]
    /\ UNCHANGED <<outer_vars, auth_vars, backend, table, now, next_id, issued, request_vars>>

ConsumeLink(id) ==
    /\ backend = "redb"
    /\ LET r == consume_link(table, id, now)
       IN /\ table' = txn_result(table, r)
          /\ issued' = IF r.err = Ok THEN issued \cup {r.record} ELSE issued
          /\ last' = Call("consume", id, r.err, NoInfo)
          /\ r.err = Ok => WithinModel(table'[id])
          /\ hist' = Noted(id, r.err)
    /\ UNCHANGED <<outer_vars, auth_vars, backend, now, next_id, request_vars>>

UnconsumeLink(record) ==
    /\ backend = "redb"
    /\ table' = unconsume_link(table, record)
    /\ last' = Call("rollback", record.id, Ok, NoInfo)
    /\ hist' = [hist EXCEPT ![record.id].rolled_back = TRUE]
    /\ UNCHANGED <<outer_vars, auth_vars, backend, now, next_id, issued, request_vars>>

DeleteLink(id) ==
    /\ backend = "redb"
    /\ table' = delete_link(table, id)
    /\ last' = Call("delete", id, Ok, NoInfo)
    /\ hist' = [hist EXCEPT ![id].revoked = TRUE]
    /\ UNCHANGED <<outer_vars, auth_vars, backend, now, next_id, issued, request_vars>>

(* ProvisionStorage::cleanup_expired, called on its own. *)
CleanupExpired ==
    /\ backend = "redb"
    /\ table' = cleanup_expired(table, now)
    /\ last' = [NoCall EXCEPT !.op = "cleanup", !.at = now]
    /\ UNCHANGED <<outer_vars, auth_vars, backend, now, next_id, issued, hist, request_vars>>

(* ProvisionLink::create, consume, decrement, delete, called one at a time. *)
SqlCreate(duration, max_uses, groups) ==
    /\ backend = "sqlx"
    /\ next_id < MaxLinks
    /\ LET id == next_id + 1
           link == ProvisionLink_new(id, duration, max_uses, groups, now)
       IN /\ table' = [table EXCEPT ![id] = link]
          /\ next_id' = id
          /\ issued' = issued \cup {link}
          /\ last' = Call("create", id, Ok, NoInfo)
          /\ hist' = [hist EXCEPT ![id] = [NoHist EXCEPT !.created = link]]
    /\ UNCHANGED <<outer_vars, auth_vars, backend, now, request_vars>>

SqlConsume(id) ==
    /\ backend = "sqlx"
    /\ LET r == ProvisionLink_consume(table, id, now)
       IN /\ table' = r.table
          /\ issued' = IF r.err = Ok THEN issued \cup {r.link} ELSE issued
          /\ last' = Call("consume", id, r.err, NoInfo)
          /\ r.err = Ok => WithinModel(table'[id])
          /\ hist' = Noted(id, r.err)
    /\ UNCHANGED <<outer_vars, auth_vars, backend, now, next_id, request_vars>>

SqlDecrement(link) ==
    /\ backend = "sqlx"
    /\ table' = decrement(table, link.id)
    /\ last' = Call("rollback", link.id, Ok, NoInfo)
    /\ hist' = [hist EXCEPT ![link.id].rolled_back = TRUE]
    /\ UNCHANGED <<outer_vars, auth_vars, backend, now, next_id, issued, request_vars>>

SqlDelete(link) ==
    /\ backend = "sqlx"
    /\ table' = ProvisionLink_delete(table, link.id)
    /\ last' = Call("delete", link.id, Ok, NoInfo)
    /\ hist' = [hist EXCEPT ![link.id].revoked = TRUE]
    /\ UNCHANGED <<outer_vars, auth_vars, backend, now, next_id, issued, request_vars>>

(* A call that takes a token, and what it returned. *)
TokenCall(op, token, uuid, err, info) ==
    [op |-> op, id |-> uuid.id, at |-> now, err |-> err,
     pre |-> IF uuid.err = Ok THEN table[uuid.id] ELSE NoRecord,
     info |-> info, token |-> token]

(* A verify that takes a use of the link. *)
VerifyProvisionLink_consuming(signed_token) ==
    /\ backend = "redb"
    /\ LET uuid == extract_uuid(signed_token)
           r == IF uuid.err # Ok THEN [err |-> uuid.err, info |-> NoInfo]
                ELSE verify_link(table, uuid.id, now)
       IN /\ last' = TokenCall("verify_provision", signed_token, uuid, r.err, r.info)
          /\ table' = IF r.err = Ok /\ WithinModel(consume_link(table, uuid.id, now).record)
                      THEN txn_result(table, consume_link(table, uuid.id, now))
                      ELSE table
    /\ UNCHANGED <<outer_vars, auth_vars, backend, now, next_id, issued, hist, request_vars>>

(* server::verify_provision_link(&token): extract_uuid, then verify_link. *)
VerifyProvisionLink(signed_token) ==
    /\ backend = "redb"
    /\ LET uuid == extract_uuid(signed_token)
           r == IF uuid.err # Ok THEN [err |-> uuid.err, info |-> NoInfo]
                ELSE verify_link(table, uuid.id, now)
       IN last' = TokenCall("verify_provision", signed_token, uuid, r.err, r.info)
    /\ UNCHANGED <<outer_vars, auth_vars, backend, table, now, next_id, issued, hist, request_vars>>

(* ProvisionLink::find_token(token), then verify on the link found. *)
SqlFindByToken(token) ==
    /\ backend = "sqlx"
    /\ LET uuid == from_token(token)
           found == IF uuid.err # Ok THEN [err |-> uuid.err, link |-> NoRecord]
                    ELSE ProvisionLink_find(table, uuid.id)
           err == IF found.err # Ok THEN found.err
                  ELSE ProvisionLink_verify(found.link, now)
       IN last' = TokenCall("find_token", token, uuid, err, NoInfo)
    /\ UNCHANGED <<outer_vars, auth_vars, backend, table, now, next_id, issued, hist, request_vars>>

StoreNext ==
    \/ Tick
    \/ \E d \in Durations, m \in MaxUsesValues, c \in BOOLEAN : CreateLink(d, m, c)
    \/ \E id \in LinkIds : VerifyLink(id)
    \/ \E id \in LinkIds : ConsumeLink(id)
    \/ \E r \in issued : UnconsumeLink(r)
    \/ \E id \in LinkIds : DeleteLink(id)
    \/ CleanupExpired
    \/ \E d \in Durations, m \in MaxUsesValues, g \in TargetGroups : SqlCreate(d, m, g)
    \/ \E id \in LinkIds : SqlConsume(id)
    \/ \E l \in issued : SqlDecrement(l)
    \/ \E l \in issued : SqlDelete(l)
    \/ \E id \in LinkIds :
          \E token \in TokensFor(sign_uuid(id), uuid_b64(id))
                       \cup TamperedTokens(sign_uuid(id), uuid_b64(id + 1), uuid_simple(id)) :
              VerifyProvisionLink(token)
    \/ \E id \in LinkIds :
          \E token \in TokensFor(as_token(id), uuid_simple(id))
                       \cup TamperedTokens(as_token(id), uuid_simple(id + 1), uuid_b64(id)) :
              SqlFindByToken(token)

SpecStore == StoreInit /\ [][StoreNext]_vars


(***************************************************************************)
(* api::complete_provision (api/src/lib.rs:134-160) over the redb store.   *)
(* A request is a task that runs up to its next await:                     *)
(*   idle      -> consume_provision_link, then create_person is sent       *)
(*   consumed  -> the provider may create the account; the await returns   *)
(*   created   -> generate_credential_reset_link returns                   *)
(* server::kanidm_client (lib.rs:102-106) and the Config::from_env calls   *)
(* read the process environment, which nothing changes after server::init  *)
(* has read it (lib.rs:22-26): with a running server they succeed.         *)
(***************************************************************************)
Finish(p, err) ==
    /\ pc' = [pc EXCEPT ![p] = "done"]
    /\ result' = [result EXCEPT ![p] = err]

(* consume_provision_link(&token): extract_uuid, then consume_link. *)
CompleteProvision(p, token) ==
    /\ backend = "redb"
    /\ pc[p] = "idle"
    /\ LET uuid == extract_uuid(token)
           r == consume_link(table, uuid.id, now)
       IN IF uuid.err # Ok
          THEN /\ Finish(p, uuid.err)
               /\ UNCHANGED <<table, hist, held, target, before>>
          ELSE /\ r.err = Ok => WithinModel(r.record)
               /\ target' = [target EXCEPT ![p] = uuid.id]
               /\ before' = [before EXCEPT ![p] = table[uuid.id]]
               /\ table' = txn_result(table, r)
               /\ hist' = Consumed(uuid.id, r.err)
               /\ IF r.err # Ok
                  THEN /\ Finish(p, r.err)
                       /\ UNCHANGED held
                  ELSE /\ pc' = [pc EXCEPT ![p] = "consumed"]
                       /\ held' = [held EXCEPT ![p] = r.record]
                       /\ UNCHANGED result
    /\ UNCHANGED <<outer_vars, auth_vars, backend, now, next_id, issued, last, account, rolled, accounts>>

(* The provider handles POST /v1/person and creates the account. *)
KanidmCreatesPerson(p) ==
    /\ backend = "redb"
    /\ pc[p] = "consumed"
    /\ ~account[p]
    /\ accounts[held[p].id] < MaxAccounts
    /\ account' = [account EXCEPT ![p] = TRUE]
    /\ accounts' = [accounts EXCEPT ![held[p].id] = @ + 1]
    /\ UNCHANGED <<outer_vars, auth_vars, store_vars, pc, target, before, held, result, rolled>>

(* create_person(..).await returns Err(e): the use is restored, e returned. *)
CreatePersonFails(p, err) ==
    /\ table' = unconsume_link(table, held[p])
    /\ rolled' = [rolled EXCEPT ![p] = TRUE]
    /\ hist' = [hist EXCEPT ![held[p].id].rolled_back = TRUE,
                            ![held[p].id].ambiguous = @ \/ account[p]]
    /\ Finish(p, err)

(* create_person(..).await returns: Ok for a success status, the API error *)
(* for another status, the send error when no response arrived (the        *)
(* provider may or may not have handled the request).                      *)
CreatePersonReturns(p, response) ==
    /\ backend = "redb"
    /\ pc[p] = "consumed"
    /\ \/ /\ response = "success"
          /\ account[p]
          /\ pc' = [pc EXCEPT ![p] = "created"]
          /\ UNCHANGED <<table, hist, rolled, result>>
       \/ /\ response = "status"
          /\ ~account[p]
          /\ CreatePersonFails(p, ErrKanidmApi)
       \/ /\ response = "none"
          /\ CreatePersonFails(p, ErrKanidmSend)
    /\ UNCHANGED <<outer_vars, auth_vars, backend, now, next_id, issued, last, target, before, held, account, accounts>>

(* A reset-link step that gives the use back when it fails. *)
ResetLinkReturns_rollback(p, err) ==
    /\ backend = "redb"
    /\ pc[p] = "created"
    /\ table' = IF err = Ok THEN table ELSE unconsume_link(table, held[p])
    /\ rolled' = [rolled EXCEPT ![p] = err # Ok]
    /\ Finish(p, err)
    /\ UNCHANGED <<outer_vars, auth_vars, backend, now, next_id, issued, last, hist, target, before, held,
                   account, accounts>>

(* generate_credential_reset_link(..).await returns; its error is returned. *)
ResetLinkReturns(p, err) ==
    /\ backend = "redb"
    /\ pc[p] = "created"
    /\ Finish(p, err)
    /\ UNCHANGED <<outer_vars, auth_vars, store_vars, target, before, held, account, rolled, accounts>>

(***************************************************************************)
(* ProvisionLink::consume tasks over the SQL table: the SELECT, the check  *)
(* of the row read, and the conditional UPDATE are separate awaits.        *)
(***************************************************************************)
SqlFindToken(p, token) ==
    /\ backend = "sqlx"
    /\ pc[p] = "idle"
    /\ LET uuid == from_token(token)
           found == ProvisionLink_find(table, uuid.id)
       IN IF uuid.err # Ok
          THEN Finish(p, uuid.err) /\ UNCHANGED <<held, target, before>>
          ELSE /\ target' = [target EXCEPT ![p] = uuid.id]
               /\ before' = [before EXCEPT ![p] = found.link]
               /\ IF found.err # Ok
                  THEN Finish(p, found.err) /\ UNCHANGED held
                  ELSE /\ pc' = [pc EXCEPT ![p] = "found"]
                       /\ held' = [held EXCEPT ![p] = found.link]
                       /\ UNCHANGED result
    /\ UNCHANGED <<outer_vars, auth_vars, store_vars, account, rolled, accounts>>

SqlVerify(p) ==
    /\ backend = "sqlx"
    /\ pc[p] = "found"
    /\ LET err == ProvisionLink_verify(held[p], now)
       IN IF err # Ok
          THEN Finish(p, err)
          ELSE pc' = [pc EXCEPT ![p] = "verified"] /\ UNCHANGED result
    /\ UNCHANGED <<outer_vars, auth_vars, store_vars, target, before, held, account, rolled, accounts>>

SqlTryIncrement(p) ==
    /\ backend = "sqlx"
    /\ pc[p] = "verified"
    /\ LET r == try_increment(table, held[p].id)
       IN /\ r.err = Ok => WithinModel(r.table[held[p].id])
          /\ table' = r.table
          /\ hist' = Consumed(held[p].id, r.err)
          /\ pc' = [pc EXCEPT ![p] = IF r.err = Ok THEN "consumed" ELSE "done"]
          /\ result' = [result EXCEPT ![p] = r.err]
    /\ UNCHANGED <<outer_vars, auth_vars, backend, now, next_id, issued, last, target, before, held, account,
                   rolled, accounts>>

(* The holder of a consumed link gives its use back: ProvisionLink::decrement. *)
SqlRollback(p) ==
    /\ backend = "sqlx"
    /\ pc[p] = "consumed"
    /\ table' = decrement(table, held[p].id)
    /\ rolled' = [rolled EXCEPT ![p] = TRUE]
    /\ hist' = [hist EXCEPT ![held[p].id].rolled_back = TRUE]
    /\ pc' = [pc EXCEPT ![p] = "done"]
    /\ UNCHANGED <<outer_vars, auth_vars, backend, now, next_id, issued, last, target, before, held, account,
                   result, accounts>>

(* The holder of a consumed link keeps its use. *)
SqlKeep(p) ==
    /\ backend = "sqlx"
    /\ pc[p] = "consumed"
    /\ pc' = [pc EXCEPT ![p] = "done"]
    /\ UNCHANGED <<outer_vars, auth_vars, store_vars, target, before, held, account, result, rolled, accounts>>

(* The request is over; the task serves the next one. *)
NextRequest(p) ==
    /\ pc[p] = "done"
    /\ pc' = [pc EXCEPT ![p] = "idle"]
    /\ target' = [target EXCEPT ![p] = 0]
    /\ before' = [before EXCEPT ![p] = NoRecord]
    /\ held' = [held EXCEPT ![p] = NoRecord]
    /\ account' = [account EXCEPT ![p] = FALSE]
    /\ result' = [result EXCEPT ![p] = Ok]
    /\ rolled' = [rolled EXCEPT ![p] = FALSE]
    /\ UNCHANGED <<outer_vars, auth_vars, store_vars, accounts>>

(* api::generate_provision_url by an admin: server::create_provision_link. *)
GenerateProvisionUrl(duration, max_uses, rand_cleanup) ==
    /\ backend = "redb"
    /\ next_id < MaxLinks
    /\ LET id == next_id + 1
           r == create_link(table, id, duration, max_uses, now, rand_cleanup)
       IN /\ table' = r.table
          /\ next_id' = id
          /\ hist' = [hist EXCEPT ![id] = [NoHist EXCEPT !.created = r.record]]
    /\ UNCHANGED <<outer_vars, auth_vars, backend, now, issued, last, request_vars>>

(* ProvisionLink::create while tasks run. *)
SqlInsert(duration, max_uses, groups) ==
    /\ backend = "sqlx"
    /\ next_id < MaxLinks
    /\ LET id == next_id + 1
           link == ProvisionLink_new(id, duration, max_uses, groups, now)
       IN /\ table' = [table EXCEPT ![id] = link]
          /\ next_id' = id
          /\ hist' = [hist EXCEPT ![id] = [NoHist EXCEPT !.created = link]]
    /\ UNCHANGED <<outer_vars, auth_vars, backend, now, issued, last, request_vars>>

(* delete_link / ProvisionLink::delete while requests run. *)
Revoke(id) ==
    /\ id <= next_id
    /\ ~hist[id].revoked
    /\ table' = IF backend = "redb" THEN delete_link(table, id)
                ELSE ProvisionLink_delete(table, id)
    /\ hist' = [hist EXCEPT ![id].revoked = TRUE]
    /\ UNCHANGED <<outer_vars, auth_vars, backend, now, next_id, issued, last, request_vars>>

Init == StoreInit

Next ==
    \/ Tick
    \/ \E d \in Durations, m \in MaxUsesValues, c \in BOOLEAN :
          GenerateProvisionUrl(d, m, c)
    \/ \E d \in Durations, m \in MaxUsesValues, g \in TargetGroups : SqlInsert(d, m, g)
    \/ \E id \in LinkIds : Revoke(id)
    \/ \E p \in Procs, id \in 1 .. next_id :
          \E token \in TokensFor(sign_uuid(id), uuid_b64(id)) : CompleteProvision(p, token)
    \/ \E p \in Procs : KanidmCreatesPerson(p)
    \/ \E p \in Procs, response \in {"success", "status", "none"} :
          CreatePersonReturns(p, response)
    \/ \E p \in Procs, err \in {Ok, ErrKanidmApi} : ResetLinkReturns(p, err)
    \/ \E p \in Procs, id \in 1 .. next_id :
          \E token \in TokensFor(as_token(id), uuid_simple(id)) : SqlFindToken(p, token)
    \/ \E p \in Procs : SqlVerify(p)
    \/ \E p \in Procs : SqlTryIncrement(p)
    \/ \E p \in Procs : SqlRollback(p)
    \/ \E p \in Procs : SqlKeep(p)
    \/ \E p \in Procs : NextRequest(p)

Spec == Init /\ [][Next]_vars

(***************************************************************************)
(* Sessions, the gate and the administrative server functions (SpecAuth).  *)
(* A client sends what it holds or can write without the server secret.    *)
(***************************************************************************)

(* A session cookie written by the client: claims of its own choice. *)
ForgedSession ==
    encode_session(UserSession("mallory", <<AdminGroup>>, [bearer |-> 0]))

(* The cookie values a client can send. *)
ClientValues ==
    cookies
    \cup {ForgedSession, JunkValue}
    \cup {TokenValue(<<uuid_simple(id), hmac_b64(OtherKey, uuid_simple(id))>>) :
             id \in 1 .. next_session}

(* The Cookie headers a client can send. *)
ClientHeaders ==
    {NoHeader, Header(<<Cookie("theme", JunkValue)>>)}
    \cup {Header(<<Cookie(SESSION_COOKIE_NAME, v)>>) : v \in ClientValues}
    \cup {Header(<<Cookie("authit_session2", v)>>) : v \in ClientValues}
    \cup {Header(<<Cookie("theme", JunkValue), Cookie(SESSION_COOKIE_NAME, v)>>) :
             v \in ClientValues}

(* The values of the session cookies of a header, in order. *)
SessionValues(headers) ==
    SelectSeq([i \in 1 .. Len(headers.cookies) |->
                  IF headers.cookies[i].name = SESSION_COOKIE_NAME
                  THEN headers.cookies[i].value ELSE NoValue],
              LAMBDA v : v # NoValue)

SessionValue(headers) ==
    IF SessionValues(headers) = <<>> THEN NoValue ELSE SessionValues(headers)[1]

(* HTTP statuses of the answers. *)
StatusOk == "200 OK"
SeeOther == "303 See Other"
BadRequest == "400 Bad Request"
InternalServerError == "500 Internal Server Error"

(* The answer of a server function: its result, or a ServerFnError. *)
Answer(op, headers, err, value) ==
    [op |-> op, cookie |-> SessionValue(headers), err |-> err, value |-> value,
     status |-> IF err = Ok THEN StatusOk ELSE InternalServerError,
     location |-> ""]

(* Redirect::to(uri).into_response() with the Set-Cookie value of answer. *)
Redirect_to(uri, answer) == [answer EXCEPT !.status = SeeOther, !.location = uri]

(* Cookie::build((SESSION_COOKIE_NAME, "")).max_age(Duration::ZERO) *)
ClearedCookie == [kind |-> "empty", max_age |-> 0]

(* web/src/auth_routes.rs callback, its token exchange and userinfo fetch   *)
(* having succeeded for user: the cookie is the encoded session.           *)
CallbackWeb(user) ==
    /\ admin.stage = "idle"
    /\ scheme = "cookie"
    /\ next_session < MaxSessions
    /\ LET user_session ==
               UserSession(user, Userinfo(user), AccessToken(next_session + 1))
           session_value == encode_session(user_session)
       IN /\ cookies' = cookies \cup {session_value}
          /\ reply' = Redirect_to("/", Answer("callback", NoHeader, Ok, session_value))
    /\ next_session' = next_session + 1
    /\ UNCHANGED <<outer_vars, store_vars, request_vars, scheme, sessions, logged_out, admin,
                   kanidm_calls, members>>

(* server/src/auth_routes.rs callback_inner: Session::create, then the     *)
(* cookie is the signed id of the row.                                     *)
CallbackServer(user) ==
    /\ admin.stage = "idle"
    /\ scheme = "table"
    /\ next_session < MaxSessions
    /\ LET id == next_session + 1
           user_data == UserSession(user, Userinfo(user), AccessToken(id))
           token == TokenValue(as_token(id))
       IN /\ sessions' = [sessions EXCEPT ![id] = user_data]
          /\ next_session' = id
          /\ cookies' = cookies \cup {token}
          /\ reply' = Redirect_to("/", Answer("callback", NoHeader, Ok, token))
    /\ UNCHANGED <<outer_vars, store_vars, request_vars, scheme, logged_out, admin,
                   kanidm_calls, members>>

(* web/src/auth_routes.rs logout: the answer clears the cookie. *)
LogoutWeb(headers) ==
    /\ admin.stage = "idle"
    /\ scheme = "cookie"
    /\ logged_out' = logged_out \cup ({SessionValue(headers)} \cap cookies)
    /\ reply' = Redirect_to("/login", Answer("logout", headers, Ok, ClearedCookie))
    /\ UNCHANGED <<outer_vars, store_vars, request_vars, scheme, sessions, next_session, cookies,
                   admin, kanidm_calls, members>>

RECURSIVE delete_tokens(_, _)
delete_tokens(t, values) ==
    IF values = <<>> THEN t
    ELSE delete_tokens(Session_delete_token(t, Head(values)), Tail(values))

(* A logout that answers with an error when it deleted no session. *)
LogoutServer_strict(headers, db_ok) ==
    /\ admin.stage = "idle"
    /\ scheme = "table"
    /\ sessions' = IF db_ok THEN delete_tokens(sessions, SessionValues(headers))
                   ELSE sessions
    /\ logged_out' = logged_out \cup ({SessionValue(headers)} \cap cookies)
    /\ reply' = IF db_ok /\ Session_find_token(sessions, SessionValue(headers)).err = Ok
                THEN Redirect_to("/login", Answer("logout", headers, Ok, ClearedCookie))
                ELSE Answer("logout", headers, ErrRowNotFound, NoValue)
    /\ UNCHANGED <<outer_vars, store_vars, request_vars, scheme, next_session, cookies, admin,
                   kanidm_calls, members>>

(* server/src/auth_routes.rs logout: Session::delete_token for every        *)
(* session cookie of the request, its result dropped (the DELETE fails     *)
(* when db_ok is false), then the answer clears the cookie.                *)
LogoutServer(headers, db_ok) ==
    /\ admin.stage = "idle"
    /\ scheme = "table"
    /\ sessions' = IF db_ok THEN delete_tokens(sessions, SessionValues(headers))
                   ELSE sessions
    /\ logged_out' = logged_out \cup ({SessionValue(headers)} \cap cookies)
    /\ reply' = Redirect_to("/login", Answer("logout", headers, Ok, ClearedCookie))
    /\ UNCHANGED <<outer_vars, store_vars, request_vars, scheme, next_session, cookies, admin,
                   kanidm_calls, members>>

(* Some(session) of Option<UserSession>, serialized. *)
Some(session) == [kind |-> "json", session |-> session]

(* A current-user endpoint that passes the error of the resolution on. *)
get_current_user_strict(headers) ==
    LET resolved == get_session_from_cookie(headers)
    IN [err |-> resolved.err,
        value |-> IF resolved.err = Ok THEN Some(resolved.session) ELSE NoValue]

(* api::get_current_user: Ok(Some(session)), or Ok(None) on any error. *)
get_current_user(headers) ==
    LET resolved == get_session_from_cookie(headers)
    IN [err |-> Ok,
        value |-> IF resolved.err = Ok THEN Some(resolved.session) ELSE NoValue]

(* POST /api/current-user.  reply.err keeps what the resolution said;      *)
(* status and value are the endpoint's result.                             *)
GetCurrentUser(headers) ==
    /\ admin.stage = "idle"
    /\ scheme = "cookie"
    /\ LET current_user == get_current_user(headers)
       IN reply' = [Answer("current_user", headers, current_user.err, current_user.value)
                       EXCEPT !.err = get_session_from_cookie(headers).err]
    /\ UNCHANGED <<outer_vars, store_vars, request_vars, scheme, sessions, next_session, cookies,
                   logged_out, admin, kanidm_calls, members>>

(* Session::find_token on the cookie value of a request. *)
FindToken(headers) ==
    /\ admin.stage = "idle"
    /\ scheme = "table"
    /\ SessionValue(headers) # NoValue
    /\ LET found == Session_find_token(sessions, SessionValue(headers))
       IN reply' = Answer("find_token", headers, found.err, NoValue)
    /\ UNCHANGED <<outer_vars, store_vars, request_vars, scheme, sessions, next_session, cookies,
                   logged_out, admin, kanidm_calls, members>>

(* The administrative server functions of api/src/lib.rs. *)
KanidmOps == {"list_users", "list_groups", "generate_reset_link", "delete_user",
              "create_user"}
AdminOps == KanidmOps \cup {"update_user_group", "generate_provision_url"}

(* A server function that goes on whatever the gate answered. *)
AdminGate_unchecked(op, headers) ==
    /\ scheme = "cookie"
    /\ admin.stage = "idle"
    /\ LET gate == require_admin_session(headers)
       IN /\ admin' = [op |-> op, stage |-> "passed", gate |-> gate.err]
          /\ reply' = Answer("gate", headers, gate.err, NoValue)
    /\ UNCHANGED <<outer_vars, store_vars, request_vars, scheme, sessions, next_session, cookies,
                   logged_out, kanidm_calls, members>>

(* server::require_admin_session().await.map_err(to_server_error)? at the  *)
(* head of the server function op.                                         *)
AdminGate(op, headers) ==
    /\ scheme = "cookie"
    /\ admin.stage = "idle"
    /\ LET gate == require_admin_session(headers)
       IN /\ admin' = IF gate.err = Ok
                      THEN [op |-> op, stage |-> "passed", gate |-> gate.err]
                      ELSE NoRequest
          /\ reply' = Answer("gate", headers, gate.err, NoValue)
    /\ UNCHANGED <<outer_vars, store_vars, request_vars, scheme, sessions, next_session, cookies,
                   logged_out, kanidm_calls, members>>

(* The server function returns. *)
AdminDone == admin' = NoRequest

(* list_users, list_groups, generate_reset_link, delete_user, create_user: *)
(* one call to the provider.                                               *)
AdminKanidmCall ==
    /\ admin.stage = "passed"
    /\ admin.op \in KanidmOps
    /\ kanidm_calls < MaxCalls
    /\ kanidm_calls' = kanidm_calls + 1
    /\ AdminDone
    /\ UNCHANGED <<outer_vars, store_vars, request_vars, scheme, sessions, next_session, cookies,
                   logged_out, reply, members>>

(* update_user_group: add_user_to_group or remove_user_from_group. *)
AdminUpdateUserGroup(user_id, group_id, add) ==
    /\ admin.stage = "passed"
    /\ admin.op = "update_user_group"
    /\ kanidm_calls < MaxCalls
    /\ kanidm_calls' = kanidm_calls + 1
    /\ members' = IF add THEN members \cup {<<group_id, user_id>>}
                  ELSE members \ {<<group_id, user_id>>}
    /\ AdminDone
    /\ UNCHANGED <<outer_vars, store_vars, request_vars, scheme, sessions, next_session, cookies,
                   logged_out, reply>>

(* generate_provision_url: server::create_provision_link. *)
AdminGenerateProvisionUrl(duration, max_uses, rand_cleanup) ==
    /\ admin.stage = "passed"
    /\ admin.op = "generate_provision_url"
    /\ backend = "redb"
    /\ next_id < MaxLinks
    /\ LET id == next_id + 1
           r == create_link(table, id, duration, max_uses, now, rand_cleanup)
       IN /\ table' = r.table
          /\ next_id' = id
          /\ hist' = [hist EXCEPT ![id] = [NoHist EXCEPT !.created = r.record]]
    /\ AdminDone
    /\ UNCHANGED <<outer_vars, backend, now, issued, last, request_vars, scheme, sessions,
                   next_session, cookies, logged_out, reply, kanidm_calls, members>>

AuthStart ==
    /\ backend = "redb"
    /\ scheme \in {"cookie", "table"}
    /\ entries = <<>>
    /\ IdleInit

AuthNext ==
    \/ \E user \in Users : CallbackWeb(user)
    \/ \E user \in Users : CallbackServer(user)
    \/ \E headers \in ClientHeaders : LogoutWeb(headers)
    \/ \E headers \in ClientHeaders, db_ok \in BOOLEAN : LogoutServer(headers, db_ok)
    \/ \E headers \in ClientHeaders : GetCurrentUser(headers)
    \/ \E headers \in ClientHeaders : FindToken(headers)
    \/ \E op \in AdminOps, headers \in ClientHeaders : AdminGate(op, headers)
    \/ AdminKanidmCall
    \/ \E add \in BOOLEAN : AdminUpdateUserGroup("bob", StaffGroup, add)
    \/ \E d \in Durations, m \in MaxUsesValues, c \in BOOLEAN :
          AdminGenerateProvisionUrl(d, m, c)

SpecAuth == AuthStart /\ [][AuthNext]_vars

(***************************************************************************)
(* The login flow (SpecLogin).  A login request is two steps, one for each *)
(* acquisition of the map's write lock; a callback request is its state    *)
(* check, under the write lock, and then the rest of the handler, which    *)
(* does not touch the map.  Requests interleave at these points.           *)
(***************************************************************************)
ClockTick ==
    /\ clock + ClockStep <= MaxClock
    /\ clock' = clock + ClockStep
    /\ UNCHANGED <<kanidm_vars, store_vars, request_vars, auth_vars, pkce_verifiers,
                   logins, callbacks, passes, evicted>>

(* login: state.cleanup_old_verifiers().await *)
LoginCleanup(s) ==
    /\ logins[s].pc = "idle"
    /\ \A earlier \in States : earlier < s => logins[earlier].pc # "idle"
    /\ pkce_verifiers' = cleanup_old_verifiers(pkce_verifiers, clock)
    /\ evicted' = [e \in States |->
                      IF pkce_verifiers[e] # NoEntry /\ pkce_verifiers'[e] = NoEntry
                      THEN clock - pkce_verifiers[e] ELSE evicted[e]]
    /\ logins' = [logins EXCEPT ![s] =
                     [pc |-> "cleaned",
                      kept |-> {e \in States : pkce_verifiers'[e] # NoEntry}]]
    /\ UNCHANGED <<kanidm_vars, store_vars, request_vars, auth_vars, clock, callbacks,
                   passes>>

(* login: the insert of the new state, then the redirect to the provider. *)
LoginInsert(s) ==
    /\ logins[s].pc = "cleaned"
    /\ pkce_verifiers' = verifiers_insert(pkce_verifiers, s, clock)
    /\ logins' = [logins EXCEPT ![s].pc = "done"]
    /\ reply' = Redirect_to("/ui/oauth2", Answer("login", NoHeader, Ok, NoValue))
    /\ UNCHANGED <<kanidm_vars, store_vars, request_vars, scheme, sessions,
                   next_session, cookies, logged_out, admin, kanidm_calls, members,
                   clock, callbacks, passes, evicted>>

(* The answer of a callback that failed with err: AuthError::into_response *)
(* in web/, the ServerFnError of callback_inner's error in server/.        *)
CallbackError(err) ==
    IF scheme = "cookie"
    THEN [Answer("callback", NoHeader, err, NoValue) EXCEPT
             !.status = IF err = InvalidState THEN BadRequest ELSE InternalServerError]
    ELSE Answer("callback", NoHeader, err, NoValue)

(* callback: the PKCE verifier of params.state is taken out of the map, or *)
(* the request fails.                                                      *)
CallbackStateCheck(c, state) ==
    /\ callbacks[c].stage = "idle"
    /\ \A earlier \in Callbacks : earlier < c => callbacks[earlier].stage # "idle"
    /\ LET removed == verifiers_remove(pkce_verifiers, state)
       IN IF removed.entry = NoEntry
          THEN /\ callbacks' = [callbacks EXCEPT ![c] =
                      [NoCallback EXCEPT
                          !.state = state, !.stage = "done",
                          !.err = IF scheme = "cookie" THEN InvalidState
                                  ELSE ErrMissingVerifier]]
               /\ reply' = CallbackError(callbacks'[c].err)
               /\ UNCHANGED <<pkce_verifiers, passes>>
          ELSE /\ pkce_verifiers' = removed.map
               /\ passes' = [passes EXCEPT ![state] = @ + 1]
               /\ callbacks' = [callbacks EXCEPT ![c] =
                      [NoCallback EXCEPT !.state = state, !.stage = "exchange",
                                         !.age = clock - removed.entry]]
               /\ UNCHANGED reply
    /\ UNCHANGED <<kanidm_vars, store_vars, request_vars, scheme, sessions,
                   next_session, cookies, logged_out, admin, kanidm_calls, members,
                   clock, logins, evicted>>

(* callback: the token exchange, the userinfo fetch or the making of the   *)
(* session fails.                                                          *)
CallbackFails(c, step) ==
    /\ callbacks[c].stage = "exchange"
    /\ LET err == IF scheme = "cookie"
                  THEN (IF step = "token" THEN ErrTokenExchange
                        ELSE IF step = "userinfo" THEN ErrUserInfo ELSE ErrSession)
                  ELSE (IF step = "session" THEN ErrSessionInsert ELSE ErrRequest)
       IN /\ callbacks' = [callbacks EXCEPT ![c].stage = "done", ![c].err = err,
                                            ![c].exchanged = TRUE]
          /\ reply' = CallbackError(err)
    /\ UNCHANGED <<kanidm_vars, store_vars, request_vars, scheme, sessions,
                   next_session, cookies, logged_out, admin, kanidm_calls, members,
                   pkce_verifiers, clock, logins, passes, evicted>>

(* callback: token and userinfo arrive for user, the session is made and   *)
(* its cookie set.                                                         *)
CallbackSucceeds(c, user) ==
    /\ callbacks[c].stage = "exchange"
    /\ next_session < MaxSessions
    /\ LET id == next_session + 1
           user_session == UserSession(user, Userinfo(user), AccessToken(id))
           session_value == IF scheme = "cookie" THEN encode_session(user_session)
                            ELSE TokenValue(as_token(id))
       IN /\ sessions' = IF scheme = "cookie" THEN sessions
                         ELSE [sessions EXCEPT ![id] = user_session]
          /\ next_session' = id
          /\ cookies' = cookies \cup {session_value}
          /\ reply' = Redirect_to("/", Answer("callback", NoHeader, Ok, session_value))
    /\ callbacks' = [callbacks EXCEPT ![c].stage = "done", ![c].exchanged = TRUE]
    /\ UNCHANGED <<kanidm_vars, store_vars, request_vars, scheme, logged_out, admin,
                   kanidm_calls, members, pkce_verifiers, clock, logins, passes,
                   evicted>>

LoginStart == AuthStart

LoginNext ==
    \/ ClockTick
    \/ \E s \in States : LoginCleanup(s)
    \/ \E s \in States : LoginInsert(s)
    \/ \E c \in Callbacks, state \in StateParams : CallbackStateCheck(c, state)
    \/ \E c \in Callbacks, step \in {"token", "userinfo", "session"} :
          CallbackFails(c, step)
    \/ \E c \in Callbacks, user \in Users : CallbackSucceeds(c, user)

SpecLogin == LoginStart /\ [][LoginNext]_vars

(***************************************************************************)
(* Person entries translated (SpecPersons).                                *)
(***************************************************************************)
(* KanidmClient::list_persons on the provider's answer. *)
ListPersons ==
    /\ persons' = [err |-> Ok, persons |-> list_persons(entries), listed |-> TRUE]
    /\ UNCHANGED <<login_vars, store_vars, request_vars, auth_vars, entries, person>>

(* Person::try_from on the i-th entry, as get_person does on its own. *)
TranslatePerson(i) ==
    /\ LET translated == Person_try_from(entries[i])
       IN person' = [index |-> i, err |-> translated.err, person |-> translated.person]
    /\ UNCHANGED <<login_vars, store_vars, request_vars, auth_vars, entries, persons>>

PersonsInit ==
    /\ backend = "redb"
    /\ scheme = "cookie"
    /\ IdleInit
    /\ \E n \in 1 .. MaxEntries : entries \in [1 .. n -> RawPersons]

PersonsNext ==
    \/ ListPersons
    \/ \E i \in 1 .. Len(entries) : TranslatePerson(i)

SpecPersons == PersonsInit /\ [][PersonsNext]_vars

(***************************************************************************)
(* Properties of sessions and the gate (SpecAuth).                         *)
(***************************************************************************)

(* The answers that resolve a session from the request's cookie. *)
ResolvingOps == {"gate", "current_user", "find_token"}

(* The access tokens the provider has handed to callbacks so far. *)
IssuedAccessTokens == {AccessToken(n) : n \in 1 .. next_session}

(* C16, as stated: a session resolves, and the gate is passed, only with a  *)
(* cookie value that a successful callback issued; a value written by the  *)
(* client never resolves.                                                  *)
C16_AsStated ==
    reply.op \in ResolvingOps /\ reply.err = Ok => reply.cookie \in cookies

(* C17: the gate answers Ok exactly when one of the resolved session's     *)
(* groups equals the configured admin group; a session that resolves       *)
(* without it is refused with the access-denied error, which is none of    *)
(* the errors of a session that does not resolve.                          *)
C17_ExactAdminGroup ==
    reply.op = "gate" /\ reply.cookie.kind = "base64 json" =>
        LET groups == reply.cookie.session.groups
            named == \E i \in 1 .. Len(groups) : groups[i] = AdminGroup
        IN /\ reply.err = Ok <=> named
           /\ ~named => /\ reply.err \in ForbiddenClass
                        /\ reply.err \notin UnauthenticatedClass
                        /\ admin = NoRequest

(* A session issued by a callback, whose groups hold a longer name that    *)
(* begins with the admin group's, is refused.                              *)
C17_Witness ==
    /\ reply.op = "gate"
    /\ reply.cookie \in cookies
    /\ reply.err = ErrAccessDenied
    /\ \E i \in 1 .. Len(reply.cookie.session.groups) :
           reply.cookie.session.groups[i] = LongerGroup

(* C18: a step that calls the provider or writes the link store is a step  *)
(* of an administrative request whose gate answered Ok earlier in that     *)
(* request; a request whose gate failed changes neither.                   *)
C18_GateBeforeEffect ==
    [][(kanidm_calls' # kanidm_calls \/ members' # members \/ table' # table)
          => /\ admin.stage = "passed"
             /\ admin.op \in AdminOps
             /\ admin.gate = Ok
             /\ reply.op = "gate" /\ reply.err = Ok]_vars

(* The provider was called and a link stored, and a later request was      *)
(* stopped at the gate.                                                    *)
C18_Witness ==
    /\ kanidm_calls > 0
    /\ next_id > 0
    /\ reply.op = "gate"
    /\ reply.err # Ok

(* C19, as stated: a cookie value that a logout request carried resolves   *)
(* no more.                                                                *)
C19_AsStated ==
    reply.op \in ResolvingOps /\ reply.cookie \in logged_out => reply.err # Ok

(* C20, as stated: no value sent to the client (the cookie set by the      *)
(* callback, the result of the current-user endpoint) holds an access      *)
(* token.                                                                  *)
C20_AsStated ==
    ~ /\ reply.value.kind \in {"base64 json", "json"}
      /\ reply.value.session.access_token \in IssuedAccessTokens

(* C23: logout always succeeds for the client.  Whatever the request's     *)
(* cookie (none, malformed, badly signed, of no stored session) and        *)
(* whether or not the delete fails, the answer clears the session cookie   *)
(* with Max-Age=0 and redirects to /login; deleting by the token of an     *)
(* absent session leaves the sessions table as it is.                      *)
C23_LogoutAlwaysSucceeds ==
    [][reply'.op = "logout" =>
          /\ reply'.status = SeeOther
          /\ reply'.location = "/login"
          /\ reply'.value = ClearedCookie
          /\ reply'.err = Ok
          /\ (scheme = "table" /\ Session_find_token(sessions, reply'.cookie).err # Ok)
                => sessions' = sessions]_vars

(* A logout whose delete failed: the session is still stored, and the      *)
(* answer cleared the cookie all the same.                                 *)
C23_Witness ==
    /\ scheme = "table"
    /\ reply.op = "logout"
    /\ reply.cookie \in cookies
    /\ Session_find_token(sessions, reply.cookie).err = Ok
    /\ reply.value = ClearedCookie

(* C25: the current-user endpoint never answers an unauthenticated caller  *)
(* with an error: it returns None when the cookie is absent, malformed or  *)
(* resolves to no session, and the session only when the cookie resolves.  *)
C25_CurrentUserNeverErrors ==
    reply.op = "current_user" =>
        /\ reply.status = StatusOk
        /\ reply.value # NoValue <=> reply.cookie.kind = "base64 json"
        /\ reply.value # NoValue => reply.value = Some(reply.cookie.session)

(* The endpoint was called with a cookie that does not decode, and         *)
(* answered None.                                                          *)
C25_Witness ==
    /\ reply.op = "current_user"
    /\ reply.cookie = JunkValue
    /\ reply.err = ErrInvalidCookie
    /\ reply.value = NoValue
    /\ reply.status = StatusOk

(***************************************************************************)
(* Properties of the login flow (SpecLogin).                               *)
(***************************************************************************)

(* Callback c has passed the state check. *)
Passed(c) == callbacks[c].age # NoEntry

(* C21: a state value issued by login lets at most one callback pass the   *)
(* state check.  A second callback with the same state, one after the      *)
(* other or at the same time, and a callback with a state no login issued  *)
(* fail with the invalid-state error before any token exchange and before  *)
(* any session is made.                                                    *)
C21_OneCallbackPerState ==
    /\ \A s \in StateParams :
          /\ passes[s] <= 1
          /\ passes[s] = 1 => s \in States /\ logins[s].pc = "done"
    /\ \A c, d \in Callbacks :
          (c # d /\ Passed(c) /\ Passed(d)) => callbacks[c].state # callbacks[d].state
    /\ \A c \in Callbacks :
          (callbacks[c].stage # "idle" /\ ~Passed(c)) =>
              /\ callbacks[c].stage = "done"
              /\ callbacks[c].err \in InvalidStateClass
              /\ ~callbacks[c].exchanged
    /\ next_session <= Cardinality({c \in Callbacks : Passed(c)})

(* A state was replayed: one callback passed with it and made its session, *)
(* a second one with the same state was refused.                           *)
C21_Witness ==
    \E c, d \in Callbacks :
        /\ callbacks[c].state \in States
        /\ callbacks[d].state = callbacks[c].state
        /\ Passed(c) /\ callbacks[c].stage = "done" /\ callbacks[c].err = Ok
        /\ callbacks[d].err \in InvalidStateClass
        /\ next_session = 1

(* C22, as stated: when a step of callback before the session is made      *)
(* fails, no session cookie is set and the answer is a redirect back to    *)
(* the login page that carries the error message as a query parameter.     *)
C22_AsStated ==
    (reply.op = "callback" /\ reply.err # Ok) =>
        /\ reply.value = NoValue
        /\ reply.status = SeeOther
        /\ reply.location # ""

(* C24: no login's entry is lost, however logins (cleanup, then insert,    *)
(* under separate acquisitions of the lock) and callbacks interleave: the  *)
(* entry of a login that has inserted it is in the map, unless its own     *)
(* callback removed it or a cleanup evicted it at the age of the TTL or    *)
(* later.                                                                  *)
C24_NoLostEntry ==
    \A s \in States :
        logins[s].pc = "done" =>
            \/ pkce_verifiers[s] # NoEntry /\ pkce_verifiers[s] <= clock
            \/ passes[s] = 1
            \/ evicted[s] >= ttl

(* Two logins overlapped: each ran its cleanup before the other inserted,  *)
(* and both entries are in the map.                                        *)
C24_Witness ==
    \E s, t \in States :
        /\ s # t
        /\ logins[s].pc = "done" /\ logins[t].pc = "done"
        /\ s \notin logins[t].kept /\ t \notin logins[s].kept
        /\ pkce_verifiers[s] # NoEntry /\ pkce_verifiers[t] # NoEntry

(* C27, as stated: no callback passes the state check with an entry that   *)
(* login inserted more than the TTL earlier.                               *)
C27_AsStated ==
    \A c \in Callbacks : callbacks[c].age <= ttl

(***************************************************************************)
(* Properties of the translation of person entries (SpecPersons).          *)
(***************************************************************************)

(* The entries that have a uuid and a name. *)
Translatable == {i \in 1 .. Len(entries) : entries[i].uuid # <<>> /\ entries[i].name # <<>>}

(* C26, as stated: the translation of an entry fails exactly when its uuid *)
(* or its name is missing; an entry with both and with no displayname,     *)
(* mail or memberof translates, with empty values for these; a listing     *)
(* drops the failing entries and keeps the others.                         *)
C26_AsStated ==
    /\ person.index > 0 =>
          /\ person.err = Ok <=> person.index \in Translatable
          /\ person.err = Ok =>
                /\ person.person.uuid = Head(entries[person.index].uuid)
                /\ person.person.name = Head(entries[person.index].name)
                /\ person.person.email_addresses = entries[person.index].mail
                /\ person.person.groups = entries[person.index].memberof
    /\ persons.listed =>
          /\ persons.err = Ok
          /\ Len(persons.persons) = Cardinality(Translatable)

(***************************************************************************)
(* Properties of the store driven by one caller (SpecStore).               *)
(***************************************************************************)

(* Whether the link created as id is expired at time t, as its store reads it. *)
LinkExpired(id, t) ==
    IF backend = "redb" THEN is_expired(hist[id].created, t)
    ELSE ProvisionLink_is_expired(hist[id].created, t)

(* C3: every stored link has use_count >= 0 and, when max_uses is set,      *)
(* use_count <= max_uses, after any sequence of create, consume and         *)
(* rollback, a repeated rollback and a rollback at use_count 0 included.    *)
C3_UseCountInBounds ==
    \A id \in LinkIds :
        table[id] # NoRecord =>
            /\ table[id].use_count >= 0
            /\ table[id].max_uses # None => table[id].use_count <= table[id].max_uses

(* A second rollback for a single consume, on a stored link at use_count 0. *)
C3_Witness ==
    /\ last.op = "rollback"
    /\ last.pre # NoRecord
    /\ last.pre.use_count = 0
    /\ hist[last.id].consumed = 1
    /\ table[last.id].use_count = 0

(* The last call was a consume on a link with max_uses set that was not     *)
(* expired and that no rollback and no delete has touched.                  *)
C4_Case ==
    /\ last.op = "consume"
    /\ hist[last.id].created # NoRecord
    /\ hist[last.id].created.max_uses # None
    /\ ~hist[last.id].rolled_back
    /\ ~hist[last.id].revoked
    /\ ~LinkExpired(last.id, last.at)

(* A consume on a stored link whose use_count has reached max_uses. *)
C4_OnExhausted ==
    /\ last.op = "consume"
    /\ last.pre # NoRecord
    /\ last.pre.max_uses # None
    /\ last.pre.use_count >= last.pre.max_uses

C5_ExpiredRejected ==
    /\ (/\ last.op \in {"consume", "verify"}
        /\ last.pre # NoRecord
        /\ last.pre.expires_at < last.at)
       => /\ last.err \in ExpiryClass
          /\ table[last.id].use_count <= last.pre.use_count
    /\ (last.op = "consume" /\ hist[last.id].expired_seen) => last.err # Ok

(* An expired link that is exhausted as well is refused as expired. *)
C5_Witness ==
    /\ last.op = "consume"
    /\ last.pre # NoRecord
    /\ last.pre.expires_at < last.at
    /\ last.pre.max_uses # None
    /\ last.pre.use_count >= last.pre.max_uses
    /\ last.err = ErrExpired

(* The calls that take a token from the client. *)
TokenOps == {"verify_provision", "find_token"}

(* The token the server signs for id. *)
Signed(id) == IF backend = "redb" THEN sign_uuid(id) ELSE as_token(id)

(* C12 as stated: for every duration and max_uses generate_provision_url   *)
(* accepts (max_uses = 0, max_uses absent and duration 0 included), a      *)
(* verify of the returned token made right after succeeds and reports      *)
(* uses_remaining = max_uses.                                              *)
C12_AsStated ==
    [][(backend = "redb" /\ next_id' = next_id + 1) =>
          LET uuid == extract_uuid(sign_uuid(next_id'))
              verified == verify_link(table', uuid.id, now')
          IN /\ uuid.err = Ok
             /\ verified.err = Ok
             /\ verified.info.uses_remaining = hist'[next_id'].created.max_uses]_vars

(* C13: verify never changes the link store: whatever the token and the    *)
(* outcome, every link is stored after the call as it was before it.       *)
C13_VerifyReadOnly ==
    [][last'.op \in {"verify"} \cup TokenOps => table' = table]_vars

(* A verify of a valid token succeeded on a link with a use taken; the     *)
(* link is stored as before.                                               *)
C13_Witness ==
    /\ last.op = "verify_provision"
    /\ last.err = Ok
    /\ last.pre.use_count = 1
    /\ table[last.id] = last.pre

C15_OnlySignedTokens ==
    last.op \in TokenOps =>
        /\ last.err \notin TokenClass =>
              \E id \in LinkIds : last.token = Signed(id) /\ last.id = id
        /\ Len(last.token) # 2 => last.err = ErrTokenFormat
        /\ (Len(last.token) = 2 /\ last.token[2] # hmac_b64(Secret, last.token[1])) =>
              last.err \in {ErrSignatureEncoding, ErrTokenSignature}

(* A token made of another id part under a genuine signature was refused   *)
(* for its signature.                                                      *)
C15_Witness ==
    /\ last.op \in TokenOps
    /\ Len(last.token) = 2
    /\ last.token[1].of = "uuid"
    /\ last.token[2].key = Secret
    /\ last.token[2] # hmac_b64(Secret, last.token[1])
    /\ last.err = ErrTokenSignature

(* C29, as stated: when consume_link rejects a link as expired or as       *)
(* exhausted, the link's record is gone from the store once the call has   *)
(* returned.                                                               *)
C29_AsStated ==
    (/\ backend = "redb"
     /\ last.op = "consume"
     /\ last.err \in {ErrExpired, ErrMaxUses})
    => table[last.id] = NoRecord

(* The table a cleanup worked on: the table of before, with the new record *)
(* when the cleanup is the one at the end of create_link.                  *)
BeforeCleanup ==
    IF next_id' = next_id + 1
    THEN table_insert(table, next_id', hist'[next_id'].created)
    ELSE table

(* C30: a cleanup removes only records that are expired or exhausted and   *)
(* leaves every other record as it is; for every link id a verify or a     *)
(* consume that follows is accepted after the cleanup exactly when it is   *)
(* accepted without it.                                                    *)
C30_CleanupFrame ==
    [][(/\ backend = "redb"
        /\ \/ next_id' = next_id + 1
           \/ last'.op = "cleanup" /\ now' = now)
       => \A id \in LinkIds :
             /\ table'[id] # BeforeCleanup[id] =>
                   /\ table'[id] = NoRecord
                   /\ \/ is_expired(BeforeCleanup[id], now)
                      \/ is_exhausted(BeforeCleanup[id])
             /\ verify_link(table', id, now).err = Ok
                   <=> verify_link(BeforeCleanup, id, now).err = Ok
             /\ consume_link(table', id, now).err = Ok
                   <=> consume_link(BeforeCleanup, id, now).err = Ok]_vars

(* A cleanup has removed a link that expired with uses left: nothing else  *)
(* had deleted it.                                                         *)
C30_Witness ==
    \E id \in LinkIds :
        /\ backend = "redb"
        /\ last.op = "cleanup"
        /\ hist[id].created # NoRecord
        /\ hist[id].created.max_uses # 0
        /\ hist[id].consumed = 0
        /\ ~hist[id].revoked
        /\ table[id] = NoRecord

(***************************************************************************)
(* Properties of concurrent requests (Spec).                               *)
(***************************************************************************)

(* Request p came out of the consume of its token with a use. *)
Won(p) ==
    IF backend = "redb"
    THEN pc[p] \in {"consumed", "created", "done"} /\ held[p] # NoRecord
    ELSE pc[p] = "consumed" \/ (pc[p] = "done" /\ result[p] = Ok)

(* Request p came out of the consume of its token with an error. *)
Lost(p) == pc[p] = "done" /\ target[p] # 0 /\ ~Won(p)

(* Link id has max_uses = 1, is not expired, and was neither rolled back    *)
(* nor revoked.                                                             *)
C1_Case(id) ==
    /\ hist[id].created # NoRecord
    /\ hist[id].created.max_uses = 1
    /\ ~hist[id].rolled_back
    /\ ~hist[id].revoked
    /\ ~LinkExpired(id, now)

(* The use of a single-use link is taken at most once, and it is taken      *)
(* when every request has its consume on the link behind it.                *)
C1_OneWinner(id) ==
    /\ hist[id].consumed <= 1
    /\ Cardinality({p \in Procs : target[p] = id /\ Won(p)}) <= 1
    /\ (\A p \in Procs : target[p] = id /\ (Won(p) \/ Lost(p)))
           => hist[id].consumed = 1

C2_AsStated ==
    \A id \in LinkIds :
        (/\ backend = "redb"
         /\ hist[id].created # NoRecord
         /\ hist[id].created.max_uses # None
         /\ ~hist[id].ambiguous)
        => accounts[id] <= hist[id].created.max_uses

(* C6: the rollback after a failed account creation leaves the link stored  *)
(* as it was before the request consumed it, re-created when the consume    *)
(* had deleted it: a verify that follows reports the uses_remaining of      *)
(* before the consume, and a consume that follows succeeds, unless the      *)
(* link has expired.                                                        *)
C6_RollbackRestores ==
    [][\A p \in Procs :
          (backend = "redb" /\ pc[p] = "consumed" /\ pc'[p] = "done") =>
              /\ rolled'[p]
              /\ table'[target[p]] = before[p]
              /\ ~is_expired(before[p], now') =>
                    /\ verify_link(table', target[p], now').err = Ok
                    /\ verify_link(table', target[p], now').info.uses_remaining
                           = uses_remaining(before[p])
                    /\ consume_link(table', target[p], now').err = Ok]_vars

(* A request that took the last use was rolled back and the link is stored  *)
(* again with that use.                                                     *)
C6_Witness ==
    \E p \in Procs :
        /\ backend = "redb"
        /\ pc[p] = "done"
        /\ rolled[p]
        /\ ~account[p]
        /\ held[p].use_count = held[p].max_uses
        /\ table[target[p]] = before[p]
        /\ uses_remaining(table[target[p]]) = 1

(* The uses of link id that are spent: its use_count, all of them once the  *)
(* record is gone.                                                          *)
UsesSpent(id) ==
    IF table[id] # NoRecord THEN table[id].use_count
    ELSE hist[id].created.max_uses

(* No request holds a use of link id that it may still give back. *)
Quiet(id) ==
    \A p \in Procs : pc[p] \in {"consumed", "created"} => target[p] # id

(* C7 as stated: a use is never wasted by a failed attempt.  When every     *)
(* request on a link has returned, each use spent on it has an account      *)
(* created for it.                                                          *)
C7_AsStated ==
    \A id \in LinkIds :
        (/\ backend = "redb"
         /\ hist[id].created # NoRecord
         /\ hist[id].created.max_uses # None
         /\ hist[id].created.max_uses > 0
         /\ ~hist[id].revoked
         /\ ~LinkExpired(id, now)
         /\ Quiet(id))
        => UsesSpent(id) <= accounts[id]

C9_AsStated ==
    \A p \in Procs :
        (backend = "redb" /\ pc[p] = "done" /\ result[p] = ErrKanidmSend) =>
            /\ ~rolled[p]
            /\ result[p] # ErrKanidmApi

(* C10: once the account is created, a failure of a later step (the reset   *)
(* link) does not roll the use back: the store is left as it is.            *)
C10_NoRollbackAfterCreate ==
    [][\A p \in Procs :
          (backend = "redb" /\ pc[p] = "created" /\ pc'[p] = "done") =>
              /\ account[p]
              /\ ~rolled'[p]
              /\ table' = table]_vars

(* The reset link failed after the account was created; the use is kept. *)
C10_Witness ==
    \E p \in Procs :
        /\ backend = "redb"
        /\ pc[p] = "done"
        /\ account[p]
        /\ result[p] = ErrKanidmApi
        /\ ~rolled[p]
        /\ held[p].use_count = before[p].use_count + 1

(* The target groups of the link request p used: the groups of the SQL     *)
(* row; a redb record carries none.                                        *)
TargetGroupsOf(p) == IF backend = "sqlx" THEN held[p].groups ELSE <<>>

(* C11 as stated: after the account of a request was created, the new      *)
(* account has been added to each of the link's target groups.             *)
C11_AsStated ==
    \A p \in Procs :
        (/\ pc[p] = "done"
         /\ Won(p)
         /\ ~rolled[p]
         /\ backend = "redb" => (account[p] /\ result[p] = Ok))
        => \A i \in 1 .. Len(TargetGroupsOf(p)) :
               <<TargetGroupsOf(p)[i], p>> \in members

(* C28, as stated: once a link has been deleted, no later operation makes  *)
(* it verifiable or consumable again: the rollback of a use consumed       *)
(* before the deletion does not store the record again.                    *)
C28_AsStated ==
    \A id \in LinkIds : hist[id].revoked => table[id] = NoRecord

=============================================================================
